---- MODULE Spec2Model ----
(***************************************************************************)
(* Model of bootstrap_ci.py: the BootCI object, its constructor and its    *)
(* two public methods bootstrap_CI and get_sig_events.                     *)
(*                                                                         *)
(* Floats are fixed-point integers counted in units of 1/Quantum, with one *)
(* extra value NaN that every arithmetic operation propagates and every    *)
(* comparison rejects.  Significance levels are the rationals k/SigDen;    *)
(* SigDen is a power of two, so n_boots * (sig / 2) and                    *)
(* n_boots * (1 - sig / 2) are exact in binary floating point and the      *)
(* integer ceil/floor below are the values numpy computes.                 *)
(***************************************************************************)
EXTENDS Integers, Sequences, FiniteSets, TLC

\* ---- bounds of the model ------------------------------------------------
MaxN == 2            \* rows (subjects) of the input table: 0..MaxN
NumCols == 1         \* columns (time points) of the input table
MaxBoots == 4        \* n_boots ranges over -1..MaxBoots
MaxSig == 1          \* sig ranges over -MaxSig..MaxSig in steps of 1/SigDen
MaxConsec == 1       \* num_consec ranges over 0..MaxConsec
MaxThreshold == 1    \* threshold ranges over -MaxThreshold..MaxThreshold
EvCols == 4          \* columns of the tables the run detection is checked on

\* ---- number representation ----------------------------------------------
\* sig = k / SigDen; ci_factor is kept to 1/FScale; every other float is a multiple
\* of 1/Quantum.  Quantum is divisible by every row count up to 6 and by
\* 2 * FScale * n for n <= 4, so the means and the correction below are exact.
\* NaN stands for the mean of a sample without rows; a column holding it holds
\* nothing else.
SigDen == 2
FScale == 10
Quantum == 240
NaN == -99999999

Vals == {-1, 1}
Sigs == (0 - MaxSig * SigDen)..(MaxSig * SigDen)

None == [none |-> TRUE, val |-> <<>>]
Some(v) == [none |-> FALSE, val |-> v]

VARIABLES data, n_samples, boot_samples, ci_lower, ci_upper, sig_events, call, err

vars == <<data, n_samples, boot_samples, ci_lower, ci_upper, sig_events, call, err>>

\* ---- float helpers ------------------------------------------------------
IsNaN(x) == x = NaN
FSub(a, b) == IF IsNaN(a) \/ IsNaN(b) THEN NaN ELSE a - b
FAdd(a, b) == IF IsNaN(a) \/ IsNaN(b) THEN NaN ELSE a + b
FNeg(a) == IF IsNaN(a) THEN NaN ELSE 0 - a
FHalf(a) == IF IsNaN(a) THEN NaN ELSE a \div 2
FGt(a, b) == ~IsNaN(a) /\ ~IsNaN(b) /\ a > b
\* factor is a multiple of 1/FScale
FMulFactor(factor, a) == IF IsNaN(a) THEN NaN ELSE (factor * a) \div FScale

\* ceil(a / b) and floor(a / b) for b > 0; the square root rounded down
Ceil(a, b) == 0 - ((0 - a) \div b)
Floor(a, b) == a \div b
Isqrt(m) == CHOOSE r \in FScale..(2 * FScale) : r * r <= m /\ m < (r + 1) * (r + 1)

RECURSIVE SumCol(_, _, _)
SumCol(rows, j, k) == IF k = 0 THEN 0 ELSE rows[k][j] + SumCol(rows, j, k - 1)

\* DataFrame.mean().values of a sample: the per-column mean, NaN for no rows
Mean(rows, p) ==
    [j \in 1..p |->
        IF Len(rows) = 0 THEN NaN
        ELSE (SumCol(rows, j, Len(rows)) * Quantum) \div Len(rows)]

\* data.sample(n_samples, replace=True).mean().values: every outcome of the draw
SampleMeans(d) ==
    LET n == Len(d.rows)
    IN  {Mean([k \in 1..n |-> d.rows[pick[k]]], d.columns) : pick \in [1..n -> 1..n]}

\* np.asarray(bootstraps) for every outcome of the n_boots draws
Resamples(d, n_boots) ==
    IF n_boots <= 0 THEN {<<>>}
    ELSE [1..n_boots -> SampleMeans(d)]

\* ndarray.shape of the bootstrap matrix: np.asarray([]) has shape (0,)
Shape(rows) == IF rows = <<>> THEN <<0>> ELSE <<Len(rows), Len(rows[1])>>

RECURSIVE Insert(_, _)
Insert(x, s) ==
    IF s = <<>> THEN <<x>>
    ELSE IF x <= s[1] THEN <<x>> \o s
    ELSE <<s[1]>> \o Insert(x, Tail(s))

RECURSIVE SortAsc(_)
SortAsc(s) == IF s = <<>> THEN <<>> ELSE Insert(s[1], SortAsc(Tail(s)))

\* ndarray.sort(axis=0): every column sorted ascending, independently
SortAxis0(rows) ==
    IF rows = <<>> THEN <<>>
    ELSE LET col(j) == SortAsc([i \in 1..Len(rows) |-> rows[i][j]])
         IN  [i \in 1..Len(rows) |-> [j \in 1..Len(rows[1]) |-> col(j)[i]]]

\* boot_arr[idx]: numpy indexing along axis 0, negative indices count from the end
InRange(rows, idx) == (0 - Len(rows)) <= idx /\ idx < Len(rows)
Row(rows, idx) == IF idx < 0 THEN rows[idx + Len(rows) + 1] ELSE rows[idx + 1]

LowerIdxFloor(n_boots, sig) == Floor(n_boots * sig, 2 * SigDen)
\* int(np.ceil(n_boots * (sig / 2))) and int(np.floor(n_boots * (1 - (sig / 2))))
LowerIdx(n_boots, sig) == Ceil(n_boots * sig, 2 * SigDen)
UpperIdx(n_boots, sig) == Floor(n_boots * (2 * SigDen - sig), 2 * SigDen)

\* np.sqrt(n_samples / (n_samples - 1)) in units of 1/FScale (n_samples # 1)
CiFactor(n) == IF n = 0 THEN 0 ELSE Isqrt((n * FScale * FScale) \div (n - 1))

CiChange(factor, lo, up) ==
    [j \in 1..Len(lo) |-> FSub(FMulFactor(factor, FSub(up[j], lo[j])), FSub(up[j], lo[j]))]
CorrLower(lo, change) == [j \in 1..Len(lo) |-> FSub(lo[j], FHalf(change[j]))]
CorrUpperNarrow(up, change) == [j \in 1..Len(up) |-> FSub(up[j], FHalf(change[j]))]
CorrUpper(up, change) == [j \in 1..Len(up) |-> FAdd(up[j], FHalf(change[j]))]

\* ---- run detection ------------------------------------------------------
\* itertools.groupby over range(len(keys)): keys[x + 1] is the key of index x
RECURSIVE groupby(_, _, _, _)
groupby(keys, x, groups, uniquekeys) ==
    IF x >= Len(keys) THEN [groups |-> groups, uniquekeys |-> uniquekeys]
    ELSE IF groups # <<>> /\ uniquekeys[Len(uniquekeys)] = keys[x + 1]
         THEN groupby(keys, x + 1,
                      [groups EXCEPT ![Len(groups)] = Append(@, x)], uniquekeys)
         ELSE groupby(keys, x + 1, Append(groups, <<x>>), Append(uniquekeys, keys[x + 1]))

ArrNoInvert(ci, lo, up) == IF ci = "upper" THEN up ELSE lo
\* arr of get_sig_events for one key
Arr(ci, lo, up) == IF ci = "upper" THEN [j \in 1..Len(up) |-> FNeg(up[j])] ELSE lo

AboveThreshold(arr, threshold) == [j \in 1..Len(arr) |-> FGt(arr[j], threshold)]

RetainedAtLeast(g, g_bool, num_consec) == g_bool /\ Len(g) >= num_consec
Retained(g, g_bool, num_consec) == g_bool /\ Len(g) > num_consec

RECURSIVE Filter(_, _, _, _)
Filter(groups, uniquekeys, num_consec, k) ==
    IF k > Len(groups) THEN <<>>
    ELSE (IF Retained(groups[k], uniquekeys[k], num_consec) THEN <<groups[k]>> ELSE <<>>)
         \o Filter(groups, uniquekeys, num_consec, k + 1)

SigRuns(ci, lo, up, num_consec, threshold) ==
    LET gb == groupby(AboveThreshold(Arr(ci, lo, up), threshold), 0, <<>>, <<>>)
    IN  Filter(gb.groups, gb.uniquekeys, num_consec, 1)

\* ---- the object ---------------------------------------------------------
\* a DataFrame of shape (n, p): its p columns and its n rows
DataFrame(rows, p) == [columns |-> p, rows |-> rows]
Tables == {DataFrame(r, NumCols) : r \in UNION {[1..n -> [1..NumCols -> Vals]] : n \in 0..MaxN}}

\* every outcome of _bootstrap_resample followed by boot_arr.sort(axis=0)
SortedResamples(d, n_boots) == {SortAxis0(m) : m \in Resamples(d, n_boots)}

\* the last call made on the object and its arguments; sig holds the numerator k
\* of sig = k / SigDen, threshold the threshold in whole units
NoCall == [op |-> "__init__", given |-> FALSE, n_boots |-> 0, sig |-> 0,
           num_consec |-> 0, threshold |-> 0]
CallCI(n_boots, sig) ==
    [NoCall EXCEPT !.op = "bootstrap_CI", !.given = TRUE, !.n_boots = n_boots, !.sig = sig]
CallEvents(num_consec, threshold) ==
    [NoCall EXCEPT !.op = "get_sig_events", !.num_consec = num_consec,
                   !.threshold = threshold]

\* BootCI(data) and BootCI(data, n_boots)
Init ==
    /\ data \in Tables
    /\ n_samples = Len(data.rows)
    /\ ci_lower = None
    /\ ci_upper = None
    /\ sig_events = <<>>
    /\ err = "none"
    /\ \/ /\ call = NoCall
          /\ boot_samples = None
       \/ \E n_boots \in (-1)..MaxBoots :
            /\ call = [NoCall EXCEPT !.given = TRUE, !.n_boots = n_boots]
            /\ IF n_boots # 0
               THEN \E m \in Resamples(data, n_boots) : boot_samples = Some(m)
               ELSE boot_samples = None

\* lines 64-79 of bootstrap_CI on the sorted matrix: the exception raised, if any,
\* and the bounds the object holds afterwards
CIOutcome(n, boot_arr, n_boots, sig, old_lower, old_upper) ==
    LET lower_CI_idx == LowerIdx(n_boots, sig)
        upper_CI_idx == UpperIdx(n_boots, sig)
    IN  IF ~InRange(boot_arr, lower_CI_idx) \/ ~InRange(boot_arr, upper_CI_idx - 1)
        THEN [err |-> "IndexError", ci_lower |-> old_lower, ci_upper |-> old_upper]
        ELSE IF n = 1
        THEN [err |-> "ZeroDivisionError", ci_lower |-> old_lower, ci_upper |-> old_upper]
        ELSE LET lo == Row(boot_arr, lower_CI_idx)
                 up == Row(boot_arr, upper_CI_idx - 1)
                 ci_change == CiChange(CiFactor(n), lo, up)
             IN  [err |-> "none",
                  ci_lower |-> Some(CorrLower(lo, ci_change)),
                  ci_upper |-> Some(CorrUpper(up, ci_change))]

bootstrap_CI ==
    \E n_boots \in (-1)..MaxBoots :
    \E boot_arr \in SortedResamples(data, n_boots) :
    \E sig \in Sigs :
        \E out \in {CIOutcome(n_samples, boot_arr, n_boots, sig, ci_lower, ci_upper)} :
            /\ call' = CallCI(n_boots, sig)
            /\ boot_samples' = Some(boot_arr)
            /\ ci_lower' = out.ci_lower
            /\ ci_upper' = out.ci_upper
            /\ err' = out.err
            /\ UNCHANGED <<data, n_samples, sig_events>>

EventsOutcomeLenZero(lower, upper, old_events, num_consec, threshold) ==
    [err |-> "none",
     sig_events |-> [ci \in {"lower", "upper"} |->
                       IF lower.none THEN <<>>
                       ELSE SigRuns(ci, lower.val, upper.val, num_consec, threshold)]]
\* the body of get_sig_events: len(None) raises TypeError before anything is stored
EventsOutcome(lower, upper, old_events, num_consec, threshold) ==
    IF lower.none
    THEN [err |-> "TypeError", sig_events |-> old_events]
    ELSE [err |-> "none",
          sig_events |-> [ci \in {"lower", "upper"} |->
                            SigRuns(ci, lower.val, upper.val, num_consec, threshold)]]

get_sig_events ==
    \E num_consec \in 0..MaxConsec, t \in (0 - MaxThreshold)..MaxThreshold :
        \E out \in {EventsOutcome(ci_lower, ci_upper, sig_events, num_consec, t * Quantum)} :
            /\ call' = CallEvents(num_consec, t)
            /\ sig_events' = out.sig_events
            /\ err' = out.err
            /\ UNCHANGED <<data, n_samples, boot_samples, ci_lower, ci_upper>>

Next == bootstrap_CI \/ get_sig_events

Spec == Init /\ [][Next]_vars

\* ---- run detection on its own -------------------------------------------
\* The object after BootCI(data).bootstrap_CI(2, sig) has completed on a table of
\* EvCols columns with no or two rows, for sig = 0 (lower bound from the column
\* minima) and sig = 1 (lower bound from the column maxima); get_sig_events is then
\* applied to every such pair of bounds.
EvTables == {DataFrame(r, EvCols) : r \in {<<>>} \cup [1..2 -> [1..EvCols -> Vals]]}

InitEvents ==
    \E d \in EvTables, sig \in {0, SigDen} :
    \E boot_arr \in SortedResamples(d, 2) :
        \E out \in {CIOutcome(Len(d.rows), boot_arr, 2, sig, None, None)} :
            /\ data = d
            /\ n_samples = Len(d.rows)
            /\ boot_samples = Some(boot_arr)
            /\ ci_lower = out.ci_lower
            /\ ci_upper = out.ci_upper
            /\ sig_events = <<>>
            /\ call = CallCI(2, sig)
            /\ err = out.err

NextEvents == get_sig_events

SpecEvents == InitEvents /\ [][NextEvents]_vars

\* ---- properties of get_sig_events ---------------------------------------
EventsDone == call.op = "get_sig_events" /\ err = "none"
NumPoints == Len(ci_lower.val)
\* the significance predicate of index i (zero-based) for one key, as documented
Significant(key, i) ==
    IF key = "lower"
    THEN ~IsNaN(ci_lower.val[i + 1]) /\ ci_lower.val[i + 1] > call.threshold * Quantum
    ELSE ~IsNaN(ci_upper.val[i + 1]) /\ ci_upper.val[i + 1] < 0 - call.threshold * Quantum
\* <<a, b>>: the indices a..b are a maximal run of significant indices
MaximalRuns(key) ==
    {ab \in (0..(NumPoints - 1)) \X (0..(NumPoints - 1)) :
        /\ ab[1] <= ab[2]
        /\ \A i \in ab[1]..ab[2] : Significant(key, i)
        /\ ab[1] = 0 \/ ~Significant(key, ab[1] - 1)
        /\ ab[2] = NumPoints - 1 \/ ~Significant(key, ab[2] + 1)}
RunList(a, b) == [k \in 1..(b - a + 1) |-> a + k - 1]
Listed(g, runs) == \E k \in 1..Len(runs) : runs[k] = g
Elems(g) == {g[m] : m \in 1..Len(g)}

C2_RunsWellFormed ==
    EventsDone =>
        /\ DOMAIN sig_events = {"lower", "upper"}
        /\ \A key \in {"lower", "upper"} :
            LET runs == sig_events[key]
            IN  /\ \A k \in 1..Len(runs) :
                    LET g == runs[k]
                    IN  /\ Len(g) >= 1
                        /\ \A m \in 1..Len(g) :
                            /\ g[m] \in 0..(NumPoints - 1)
                            /\ Significant(key, g[m])
                            /\ m > 1 => g[m] = g[m - 1] + 1
                        /\ g[1] > 0 => ~Significant(key, g[1] - 1)
                        /\ g[Len(g)] < NumPoints - 1 => ~Significant(key, g[Len(g)] + 1)
                /\ \A k1, k2 \in 1..Len(runs) :
                    k1 < k2 => /\ runs[k1][1] < runs[k2][1]
                               /\ Elems(runs[k1]) \cap Elems(runs[k2]) = {}

\* a state with two runs listed under one key and a run listed under the other
C2_Witness ==
    /\ EventsDone
    /\ Len(sig_events["lower"]) >= 2
    /\ Len(sig_events["upper"]) >= 1

\* ---- properties of the constructor and bootstrap_CI ---------------------
\* the error classes of the specification and the Python exceptions in them
InvalidArgument == {"ValueError"}
DomainError == {"ZeroDivisionError"}
IndexErrorClass == {"IndexError"}

CIDone == call.op = "bootstrap_CI" /\ err = "none"
\* the cutoff positions as the specification writes them, for sig = k / SigDen
CutLower(n_boots, k) == Ceil(n_boots * k, 2 * SigDen)
CutUpper(n_boots, k) == Floor(n_boots * (2 * SigDen - k), 2 * SigDen)
OutOfRange(n_boots, k) ==
    \/ CutLower(n_boots, k) \notin 0..(n_boots - 1)
    \/ CutUpper(n_boots, k) - 1 \notin 0..(n_boots - 1)
\* the uncorrected percentile bounds of the last bootstrap_CI call
RawLower == Row(boot_samples.val, CutLower(call.n_boots, call.sig))
RawUpper == Row(boot_samples.val, CutUpper(call.n_boots, call.sig) - 1)

\* C3: a constructor call or a bootstrap_CI call with n_boots <= 0 signals an
\* InvalidArgument-class error and never completes silently.
C3_NonPositiveBootsRejected ==
    (call.op \in {"__init__", "bootstrap_CI"} /\ call.given /\ call.n_boots <= 0)
        => err \in InvalidArgument

\* C4: with n_boots >= 1 and n >= 2 rows, bootstrap_CI with sig <= 0 or sig >= 1
\* signals an InvalidArgument-class error and assigns neither ci_lower nor ci_upper.
C4_SigOutsideUnitRejected ==
    [][(/\ call'.op = "bootstrap_CI"
        /\ call'.n_boots >= 1
        /\ n_samples >= 2
        /\ (call'.sig <= 0 \/ call'.sig >= SigDen))
          => (err' \in InvalidArgument /\ UNCHANGED <<ci_lower, ci_upper>>)]_vars

\* C5: on a table of at most one row, bootstrap_CI signals a DomainError for every
\* n_boots and sig and never assigns ci_lower or ci_upper (which therefore stay
\* unset); stated here for the calls whose n_boots >= 1 and sig in (0, 1) are valid.
C5_TooFewRowsRejected ==
    (/\ call.op = "bootstrap_CI"
     /\ n_samples <= 1
     /\ call.n_boots >= 1
     /\ 0 < call.sig /\ call.sig < SigDen)
        => (err \in DomainError /\ ci_lower.none /\ ci_upper.none)

C7_CorrectionWidensSymmetrically ==
    (CIDone /\ n_samples >= 2) =>
        /\ CiFactor(n_samples) >= FScale
        /\ \A j \in 1..data.columns :
            LET lo == ci_lower.val[j]
                up == ci_upper.val[j]
            IN  /\ RawLower[j] - lo = up - RawUpper[j]
                /\ 2 * FScale * (up - RawUpper[j])
                     = (CiFactor(n_samples) - FScale) * (RawUpper[j] - RawLower[j])
                /\ lo + up = RawLower[j] + RawUpper[j]
                /\ RawLower[j] <= RawUpper[j]
                     => (lo <= RawLower[j] /\ RawUpper[j] <= up)

\* a completed call with sig inside (0, 1) whose interval was strictly widened
C7_Witness ==
    /\ CIDone
    /\ n_samples >= 2
    /\ 0 < call.sig /\ call.sig < SigDen
    /\ \E j \in 1..data.columns :
        /\ RawLower[j] < RawUpper[j]
        /\ ci_lower.val[j] < RawLower[j]
        /\ RawUpper[j] < ci_upper.val[j]

\* C8: after a constructor call with n_boots or a bootstrap_CI call, boot_samples
\* has shape (B, p) for the n_boots = B of that call and the p columns of the table.
C8_ShapeIsBootsByColumns ==
    (call.op = "bootstrap_CI" \/ (call.op = "__init__" /\ call.given /\ call.n_boots # 0))
        => (~boot_samples.none
            /\ Shape(boot_samples.val) = <<call.n_boots, data.columns>>)

\* C9 as stated: get_sig_events on an object on which bootstrap_CI has never
\* completed returns normally.
C9_OutOfOrderReturnsNormally ==
    (call.op = "get_sig_events" /\ ci_lower.none) => err = "none"

\* C9 as amended: get_sig_events on an object on which bootstrap_CI has never
\* completed raises TypeError and leaves the event registry empty.
C9_OutOfOrderRaises ==
    (call.op = "get_sig_events" /\ ci_lower.none)
        => (err = "TypeError" /\ sig_events = <<>>)

\* get_sig_events called after a resampling pass but before any bounds exist
C9_Witness ==
    /\ call.op = "get_sig_events"
    /\ ci_lower.none
    /\ n_samples >= 2
    /\ ~boot_samples.none
    /\ Len(boot_samples.val) >= 1
    /\ err = "TypeError"

\* C10: when bootstrap_CI completes with n_boots >= 1, sig in (0, 1) and n >= 2
\* rows, the lower cutoff position is not above the upper one and
\* ci_lower[j] <= ci_upper[j] in every column.
C10_LowerNotAboveUpper ==
    (CIDone /\ call.n_boots >= 1 /\ 0 < call.sig /\ call.sig < SigDen /\ n_samples >= 2)
        => /\ CutLower(call.n_boots, call.sig) <= CutUpper(call.n_boots, call.sig) - 1
           /\ \A j \in 1..data.columns : ci_lower.val[j] <= ci_upper.val[j]
====
